---------------------------- MODULE Spec2Model ----------------------------
(***************************************************************************)
(* Model of src/Traversal.cpp: the Kruskal-style edge selection of         *)
(* PathFinder (insert_new_edge, sort_edges, traverse, check_cycle,         *)
(* augment_components), the SpanningTree accumulator and the driver loop   *)
(* of main.                                                                *)
(***************************************************************************)
EXTENDS Integers, Sequences, FiniteSets, TLC

VARIABLES
    pc,                     \* position of main: load, traverse, main, done, undefined
    num_of_nodes,           \* PathFinder::num_of_nodes
    all_edges,              \* PathFinder::all_edges, vector<Edge>
    all_weights,            \* PathFinder::all_weights, vector<pair<weight,index>>
    index,                  \* PathFinder::index
    traversed_edges,        \* PathFinder::traversed_edges, set<pair<int,int>>
    traversed_nodes,        \* PathFinder::traversed_nodes, set<int>
    num_of_traversed_edges, \* PathFinder::num_of_traversed_edges
    new_edge,               \* main's new_edge: what the last traverse call returned
    mst_edges,              \* SpanningTree::traversed_edges, vector<Edge>
    mst_cost,               \* SpanningTree::mst_cost
    last,                   \* history: how the last traverse call ended
    accepted,               \* history: weight-index entries traverse accepted, in order
    rejected,               \* history: weight-index entries traverse erased
    skipped,                \* history: weight-index entries traverse skipped as known
    inserting               \* history: the arguments of the last insert_new_edge call

vars == << pc, num_of_nodes, all_edges, all_weights, index, traversed_edges,
           traversed_nodes, num_of_traversed_edges, new_edge, mst_edges,
           mst_cost, last, accepted, rejected, skipped, inserting >>

pathFinderVars == << num_of_nodes, all_edges, all_weights, index, traversed_edges,
                     traversed_nodes, num_of_traversed_edges >>

(***************************************************************************)
(* Bounds of the model.                                                    *)
(***************************************************************************)
MaxNodes == 4

\* triples in the input, any triples
MaxEdges == 3

\* triples in the input when the input is a simple graph
MaxSimpleEdges == 4

Weights == {1, 2}

NodeCounts == 1..MaxNodes

(***************************************************************************)
(* Edge                                                                    *)
(***************************************************************************)
Edge(s, d, w) == [source |-> s, destination |-> d, weight |-> w]

\* Edge's default arguments, and the value traverse allocates on a rejection.
SentinelEdge == Edge(-1, -1, -1)

EdgeEquals(e, f) ==
    /\ e.source = f.source
    /\ e.destination = f.destination
    /\ e.weight = f.weight

(***************************************************************************)
(* Sequence helpers                                                        *)
(***************************************************************************)
Range(seq) == {seq[i] : i \in 1..Len(seq)}

\* std::find(begin, end, value) != end, with Edge::operator==
FindEdge(edges, e) == \E i \in 1..Len(edges) : EdgeEquals(edges[i], e)

\* operator< of pair<int,int>: lexicographic
PairLess(a, b) == a[1] < b[1] \/ (a[1] = b[1] /\ a[2] < b[2])

RECURSIVE SortedInsert(_, _)
SortedInsert(seq, x) ==
    IF seq = << >> THEN << x >>
    ELSE IF PairLess(x, Head(seq)) THEN << x >> \o seq
    ELSE << Head(seq) >> \o SortedInsert(Tail(seq), x)

\* variant: the index is left in insertion order
Unsorted(seq) == seq

RECURSIVE SortPairs(_)
\* std::sort on vector<pair<int,int>>: ascending by operator<
SortPairs(seq) ==
    IF seq = << >> THEN << >>
    ELSE SortedInsert(SortPairs(Tail(seq)), Head(seq))

(***************************************************************************)
(* PathFinder: queries                                                     *)
(***************************************************************************)
\* all_edges[item.second]: the vector is indexed from 0
EdgeAt(edges, i) == edges[i + 1]

is_edge_traversed(known, source, destination) ==
    << source, destination >> \in known

check_cycle(known, n, source, destination) ==
    \/ \E idx \in 0..(n - 1) :
          /\ is_edge_traversed(known, source, idx)
          /\ is_edge_traversed(known, destination, idx)
    \/ \E idx \in 0..(n - 1) :
          /\ is_edge_traversed(known, idx, source)
          /\ is_edge_traversed(known, idx, destination)

(***************************************************************************)
(* PathFinder::augment_components: a range-for over the std::set that the  *)
(* body inserts into.  Iteration is in ascending pair order; an inserted   *)
(* pair is visited iff it lies after the current position.                 *)
(***************************************************************************)
MinPair(S) == CHOOSE a \in S : \A b \in S : a = b \/ PairLess(a, b)

After(S, cur) == {a \in S : PairLess(cur, a)}

\* variant: the two tests on the other endpoint are left out
AugmentStepUnguarded(known, edge, source, destination) ==
    known
      \cup (IF edge[2] = source THEN {<< edge[1], destination >>} ELSE {})
      \cup (IF edge[1] = destination THEN {<< source, edge[2] >>} ELSE {})

AugmentStep(known, edge, source, destination) ==
    known
      \cup (IF edge[2] = source /\ edge[1] # destination
            THEN {<< edge[1], destination >>} ELSE {})
      \cup (IF edge[1] = destination /\ edge[2] # source
            THEN {<< source, edge[2] >>} ELSE {})

RECURSIVE AugmentFrom(_, _, _, _)
AugmentFrom(known, cur, source, destination) ==
    LET k1 == AugmentStep(known, cur, source, destination)
        rest == After(k1, cur)
    IN  IF rest = {} THEN k1
        ELSE AugmentFrom(k1, MinPair(rest), source, destination)

augment_components(known, source, destination) ==
    IF known = {} THEN known
    ELSE AugmentFrom(known, MinPair(known), source, destination)

(***************************************************************************)
(* The erase in traverse: all_weights.erase(remove(begin, end, item)),     *)
(* where item is a reference to the element at position p of the vector    *)
(* std::remove is shifting, and erase is the one-iterator overload.        *)
(***************************************************************************)
RECURSIVE FindFrom(_, _, _)
FindFrom(v, i, p) ==
    IF i > Len(v) THEN i
    ELSE IF v[i] = v[p] THEN i
    ELSE FindFrom(v, i + 1, p)

RECURSIVE RemoveLoop(_, _, _, _)
\* result: next slot to fill; first: next element to look at; v[p] is re-read
RemoveLoop(v, result, first, p) ==
    IF first > Len(v) THEN [vec |-> v, ret |-> result]
    ELSE IF v[first] # v[p]
         THEN RemoveLoop([v EXCEPT ![result] = v[first]], result + 1, first + 1, p)
         ELSE RemoveLoop(v, result, first + 1, p)

StdRemove(v, p) ==
    LET f == FindFrom(v, 1, p)
    IN  IF f > Len(v) THEN [vec |-> v, ret |-> f]
        ELSE RemoveLoop(v, f, f + 1, p)

\* vector::erase(position)
EraseAt(v, k) == SubSeq(v, 1, k - 1) \o SubSeq(v, k + 1, Len(v))

\* variant: std::remove without the erase
RemoveOnly(v, p) == StdRemove(v, p).vec

EraseRemove(v, p) ==
    LET r == StdRemove(v, p)
    IN  EraseAt(r.vec, r.ret)

(***************************************************************************)
(* PathFinder::traverse: the scan of the range-for, up to its first        *)
(* return.  Falling out of the loop has no return statement.               *)
(***************************************************************************)
\* variant: the test on the node count instead of the edge count
CompleteCheckNodes(count, n) == count = n

CompleteCheck(count, n) == count = n - 1

RECURSIVE TraverseScan(_, _, _, _, _, _)
TraverseScan(weights, edges, known, count, n, i) ==
    IF i > Len(weights) THEN [kind |-> "exhausted", pos |-> i]
    ELSE LET e == EdgeAt(edges, weights[i][2])
         IN  IF CompleteCheck(count, n) THEN [kind |-> "complete", pos |-> i]
             ELSE IF is_edge_traversed(known, e.source, e.destination)
                  THEN TraverseScan(weights, edges, known, count, n, i + 1)
             ELSE IF check_cycle(known, n, e.source, e.destination)
                  THEN [kind |-> "cycle", pos |-> i]
             ELSE [kind |-> "accept", pos |-> i]

Scan == TraverseScan(all_weights, all_edges, traversed_edges,
                     num_of_traversed_edges, num_of_nodes, 1)

\* the entries the scan passed over with "continue"
SkippedBy(scan) == {all_weights[j] : j \in 1..(scan.pos - 1)}

(***************************************************************************)
(* Values of main's Edge* new_edge                                         *)
(***************************************************************************)
Unset == [kind |-> "unset", idx |-> -1]

NullPtr == [kind |-> "null", idx |-> -1]

NewSentinel == [kind |-> "sentinel", idx |-> -1]

PtrTo(i) == [kind |-> "edge", idx |-> i]

\* what falling off the end of traverse may leave in the return register
Garbage == [kind |-> "garbage", idx |-> -1]

FallOffResults == {NullPtr, Garbage}

\* what reading through a garbage pointer may yield
GarbageEdges == {SentinelEdge, Edge(0, 0, 0)}

(***************************************************************************)
(* Initial state: PathFinder pf; SpanningTree mst; the node count is the   *)
(* first token of the input.                                               *)
(***************************************************************************)
Init ==
    /\ pc = "load"
    /\ num_of_nodes \in NodeCounts
    /\ all_edges = << >>
    /\ all_weights = << >>
    /\ index = 0
    /\ traversed_edges = {}
    /\ traversed_nodes = {}
    /\ num_of_traversed_edges = 0
    /\ new_edge = Unset
    /\ mst_edges = << >>
    /\ mst_cost = 0
    /\ last = "none"
    /\ accepted = << >>
    /\ rejected = {}
    /\ skipped = {}
    /\ inserting = << >>

(***************************************************************************)
(* parse_input: one insert_new_edge per triple of the input                *)
(***************************************************************************)
\* variant: the reverse orientation is looked up whatever its weight
InsertRejectedAnyWeight(edges, s, d, w) ==
    \E i \in 1..Len(edges) : edges[i].source = d /\ edges[i].destination = s

InsertRejected(edges, s, d, w) == FindEdge(edges, Edge(d, s, w))

insert_new_edge(s, d, w) ==
    /\ inserting' = << s, d, w >>
    /\ IF InsertRejected(all_edges, s, d, w)
       THEN UNCHANGED << all_edges, all_weights, index >>
       ELSE /\ all_edges' = Append(all_edges, Edge(s, d, w))
            /\ all_weights' = Append(all_weights, << w, index >>)
            /\ index' = index + 1

\* The inputs enumerated name their nodes in order of first appearance:
\* reading the triples left to right, a node id not seen before is the
\* smallest id not yet used.  Every graph has such an input up to a
\* renaming of its nodes; any weights and any order of the triples remain.
NextLabel(edges) ==
    Cardinality(UNION {{edges[i].source, edges[i].destination} : i \in 1..Len(edges)})

InOrder(edges, s, d) ==
    /\ s <= NextLabel(edges)
    /\ d <= (IF s = NextLabel(edges) THEN s + 1 ELSE NextLabel(edges))

InsertNewEdge ==
    /\ pc = "load"
    /\ Len(all_edges) < MaxEdges
    /\ \E s \in 0..(num_of_nodes - 1), d \in 0..(num_of_nodes - 1), w \in Weights :
          /\ InOrder(all_edges, s, d)
          /\ insert_new_edge(s, d, w)
    /\ UNCHANGED << pc, num_of_nodes, traversed_edges, traversed_nodes,
                    num_of_traversed_edges, new_edge, mst_edges, mst_cost,
                    last, accepted, rejected, skipped >>

\* the same, for an input that describes a simple graph: no self-loop, and
\* at most one edge between two nodes
Joined(edges, s, d) ==
    \E i \in 1..Len(edges) :
       {edges[i].source, edges[i].destination} = {s, d}

InsertSimpleEdge ==
    /\ pc = "load"
    /\ Len(all_edges) < MaxSimpleEdges
    /\ \E s \in 0..(num_of_nodes - 1), d \in 0..(num_of_nodes - 1), w \in Weights :
          /\ s # d
          /\ InOrder(all_edges, s, d)
          /\ ~Joined(all_edges, s, d)
          /\ insert_new_edge(s, d, w)
    /\ UNCHANGED << pc, num_of_nodes, traversed_edges, traversed_nodes,
                    num_of_traversed_edges, new_edge, mst_edges, mst_cost,
                    last, accepted, rejected, skipped >>

\* end of input, then pf.sort_edges()
SortEdges ==
    /\ pc = "load"
    /\ all_weights' = SortPairs(all_weights)
    /\ pc' = "traverse"
    /\ UNCHANGED << num_of_nodes, all_edges, index, traversed_edges, traversed_nodes,
                    num_of_traversed_edges, new_edge, mst_edges, mst_cost,
                    last, accepted, rejected, skipped, inserting >>

(***************************************************************************)
(* new_edge = pf.traverse(), by the way the call ends                      *)
(***************************************************************************)
TraverseComplete ==
    /\ pc = "traverse"
    /\ Scan.kind = "complete"
    /\ new_edge' = NullPtr
    /\ last' = "complete"
    /\ pc' = "main"
    /\ UNCHANGED << pathFinderVars, mst_edges, mst_cost, accepted, rejected, skipped, inserting >>

TraverseReject ==
    /\ pc = "traverse"
    /\ Scan.kind = "cycle"
    /\ all_weights' = EraseRemove(all_weights, Scan.pos)
    /\ new_edge' = NewSentinel
    /\ last' = "cycle"
    /\ rejected' = rejected \cup {all_weights[Scan.pos]}
    /\ skipped' = skipped \cup SkippedBy(Scan)
    /\ pc' = "main"
    /\ UNCHANGED << num_of_nodes, all_edges, index, traversed_edges, traversed_nodes,
                    num_of_traversed_edges, mst_edges, mst_cost, accepted, inserting >>

TraverseAccept ==
    /\ pc = "traverse"
    /\ Scan.kind = "accept"
    /\ LET item == all_weights[Scan.pos]
           e == EdgeAt(all_edges, item[2])
       IN  /\ traversed_nodes' = traversed_nodes \cup {e.source, e.destination}
           /\ traversed_edges' =
                 augment_components(traversed_edges \cup {<< e.source, e.destination >>},
                                    e.source, e.destination)
           /\ num_of_traversed_edges' = num_of_traversed_edges + 1
           /\ new_edge' = PtrTo(item[2])
           /\ accepted' = Append(accepted, item)
    /\ last' = "accept"
    /\ skipped' = skipped \cup SkippedBy(Scan)
    /\ pc' = "main"
    /\ UNCHANGED << num_of_nodes, all_edges, all_weights, index, mst_edges, mst_cost,
                    rejected, inserting >>

\* control reaches the end of the non-void function
TraverseFallOff ==
    /\ pc = "traverse"
    /\ Scan.kind = "exhausted"
    /\ new_edge' \in FallOffResults
    /\ last' = "exhausted"
    /\ skipped' = skipped \cup SkippedBy(Scan)
    /\ pc' = "main"
    /\ UNCHANGED << pathFinderVars, mst_edges, mst_cost, accepted, rejected, inserting >>

(***************************************************************************)
(* main: the body of while (new_edge != nullptr), and SpanningTree         *)
(***************************************************************************)
IsSentinel(e) == e.destination = -1 /\ e.source = -1 /\ e.weight = -1

add_edge(e) ==
    /\ mst_edges' = Append(mst_edges, e)
    /\ mst_cost' = mst_cost + e.weight

\* what main reads through new_edge
Pointee == IF new_edge.kind = "edge" THEN EdgeAt(all_edges, new_edge.idx)
           ELSE SentinelEdge

MainExit ==
    /\ pc = "main"
    /\ new_edge = NullPtr
    /\ pc' = "done"
    /\ UNCHANGED << pathFinderVars, new_edge, mst_edges, mst_cost,
                    last, accepted, rejected, skipped, inserting >>

MainSkip ==
    /\ pc = "main"
    /\ new_edge.kind \in {"edge", "sentinel"}
    /\ IsSentinel(Pointee)
    /\ pc' = "traverse"
    /\ UNCHANGED << pathFinderVars, new_edge, mst_edges, mst_cost,
                    last, accepted, rejected, skipped, inserting >>

MainAddEdge ==
    /\ pc = "main"
    /\ new_edge.kind \in {"edge", "sentinel"}
    /\ ~IsSentinel(Pointee)
    /\ add_edge(Pointee)
    /\ pc' = "traverse"
    /\ UNCHANGED << pathFinderVars, new_edge, last, accepted, rejected, skipped, inserting >>

\* new_edge is neither null nor a pointer to an Edge: the reads through it
\* are undefined; the run is not followed past this iteration
MainGarbage ==
    /\ pc = "main"
    /\ new_edge = Garbage
    /\ \/ UNCHANGED << mst_edges, mst_cost >>
       \/ \E g \in GarbageEdges :
             IF IsSentinel(g) THEN UNCHANGED << mst_edges, mst_cost >>
             ELSE add_edge(g)
    /\ pc' = "undefined"
    /\ UNCHANGED << pathFinderVars, new_edge, last, accepted, rejected, skipped, inserting >>

Next ==
    \/ InsertNewEdge
    \/ SortEdges
    \/ TraverseComplete
    \/ TraverseReject
    \/ TraverseAccept
    \/ TraverseFallOff
    \/ MainExit
    \/ MainSkip
    \/ MainAddEdge
    \/ MainGarbage

Spec == Init /\ [][Next]_vars

\* the same program on inputs that describe simple graphs
NextSimple ==
    \/ InsertSimpleEdge
    \/ SortEdges
    \/ TraverseComplete
    \/ TraverseReject
    \/ TraverseAccept
    \/ TraverseFallOff
    \/ MainExit
    \/ MainSkip
    \/ MainAddEdge
    \/ MainGarbage

SpecSimple == Init /\ [][NextSimple]_vars

(***************************************************************************)
(* Graph notions the properties are stated with                            *)
(***************************************************************************)
Neighbours(E, S) ==
    S \cup {e.destination : e \in {x \in E : x.source \in S}}
      \cup {e.source : e \in {x \in E : x.destination \in S}}

RECURSIVE Reach(_, _)
Reach(E, S) ==
    LET T == Neighbours(E, S)
    IN  IF T = S THEN S ELSE Reach(E, T)

\* a and b are joined by a path of edges of E, read as undirected edges
Linked(E, a, b) == b \in Reach(E, {a})

ConnectedGraph(n, E) == Reach(E, {0}) = 0..(n - 1)

\* no edge of the sequence joins two nodes the edges before it already join
AcyclicSeq(seq) ==
    \A i \in 1..Len(seq) :
       ~Linked(Range(SubSeq(seq, 1, i - 1)), seq[i].source, seq[i].destination)

RECURSIVE SumWeights(_)
SumWeights(seq) ==
    IF seq = << >> THEN 0 ELSE Head(seq).weight + SumWeights(Tail(seq))

\* the edges traverse has returned as accepted, in order
AcceptedEdges == [i \in 1..Len(accepted) |-> EdgeAt(all_edges, accepted[i][2])]

\* every (weight, index) entry insert_new_edge has made
AllEntries == {<< all_edges[i].weight, i - 1 >> : i \in 1..Len(all_edges)}

EntryEdge(item) == EdgeAt(all_edges, item[2])

Known(item) ==
    is_edge_traversed(traversed_edges, EntryEdge(item).source, EntryEdge(item).destination)

CycleFlagged(item) ==
    check_cycle(traversed_edges, num_of_nodes, EntryEdge(item).source,
                EntryEdge(item).destination)

AcceptStep == pc = "traverse" /\ last' = "accept" /\ pc' = "main"

RejectStep == pc = "traverse" /\ last' = "cycle" /\ pc' = "main"

(***************************************************************************)
(* C6: insert_new_edge(s,d,w) is rejected exactly when Edge(d,s,w) is in   *)
(* the edge list; a rejected insertion changes neither the edge list, the  *)
(* weight index nor the next index; every other insertion appends the edge *)
(* and the entry (w, index) and increments the index.                      *)
(***************************************************************************)
C6_InsertStep ==
    (pc = "load" /\ pc' = "load") =>
       LET s == inserting'[1]
           d == inserting'[2]
           w == inserting'[3]
       IN  IF \E i \in 1..Len(all_edges) : all_edges[i] = Edge(d, s, w)
           THEN all_edges' = all_edges /\ all_weights' = all_weights /\ index' = index
           ELSE /\ all_edges' = all_edges \o << Edge(s, d, w) >>
                /\ all_weights' = all_weights \o << << w, index >> >>
                /\ index' = index + 1

C6_InsertRejectsExactlyReverse == [][C6_InsertStep]_vars

\* a same-orientation duplicate with the same weight was appended, and a
\* reverse duplicate was rejected
C6_Witness ==
    /\ pc = "load"
    /\ Len(all_edges) = 2
    /\ all_edges[1] = all_edges[2]
    /\ all_edges[1].source # all_edges[1].destination
    /\ inserting = << all_edges[1].destination, all_edges[1].source, all_edges[1].weight >>

(***************************************************************************)
(* C10: accepting (s,d) with known pairs K yields K' plus (x,d) for every  *)
(* (x,s) in K' with x # d plus (s,y) for every (d,y) in K' with y # s,     *)
(* where K' is K with (s,d): one pass; and no known pair is ever removed.  *)
(***************************************************************************)
SinglePass(K, s, d) ==
    LET K1 == K \cup {<< s, d >>}
    IN  K1 \cup {<< x[1], d >> : x \in {y \in K1 : y[2] = s /\ y[1] # d}}
           \cup {<< s, x[2] >> : x \in {y \in K1 : y[1] = d /\ y[2] # s}}

C10_AcceptStep ==
    /\ traversed_edges \subseteq traversed_edges'
    /\ AcceptStep =>
          LET e == EdgeAt(all_edges, accepted'[Len(accepted')][2])
          IN  traversed_edges' = SinglePass(traversed_edges, e.source, e.destination)

C10_PropagationIsSinglePass == [][C10_AcceptStep]_vars

\* the pass added a pair ordered after the pair that produced it, which the
\* iteration then visits
C10_Witness ==
    /\ last = "accept"
    /\ LET e == EntryEdge(accepted[Len(accepted)])
       IN  \E i \in 1..(Len(accepted) - 1) :
              LET a == EntryEdge(accepted[i])
              IN  /\ a.destination = e.source
                  /\ a.source # e.destination
                  /\ e.source # e.destination
                  /\ PairLess(<< a.source, a.destination >>, << a.source, e.destination >>)
                  /\ << a.source, e.destination >> \in traversed_edges

(***************************************************************************)
(* C8: a call that rejects an edge for a cycle erases exactly that edge's  *)
(* entry, keeps the others in order, returns the sentinel without looking  *)
(* at later entries, changes neither the known pairs nor the count; the    *)
(* erased entry is never scanned or accepted again.                        *)
(***************************************************************************)
Without(seq, x) == SelectSeq(seq, LAMBDA y : y # x)

C8_Step ==
    /\ RejectStep =>
          \E p \in 1..Len(all_weights) :
             /\ rejected' = rejected \cup {all_weights[p]}
             /\ all_weights[p] \notin rejected
             /\ ~Known(all_weights[p])
             /\ CycleFlagged(all_weights[p])
             /\ all_weights' = Without(all_weights, all_weights[p])
             /\ Len(all_weights') = Len(all_weights) - 1
             /\ skipped' \subseteq skipped \cup {all_weights[j] : j \in 1..(p - 1)}
             /\ new_edge' = NewSentinel
             /\ traversed_edges' = traversed_edges
             /\ num_of_traversed_edges' = num_of_traversed_edges
             /\ accepted' = accepted
    /\ \A x \in rejected :
          /\ x \notin Range(all_weights')
          /\ x \notin Range(accepted')
          /\ x \notin (skipped' \ skipped)
          /\ x \in rejected'

C8_RejectErasesExactlyOne == [][C8_Step]_vars

\* an entry in the middle of the index was erased, and a later call accepted
C8_Witness ==
    /\ last = "accept"
    /\ \E x \in rejected :
          /\ \E y \in Range(all_weights) : PairLess(y, x)
          /\ \E y \in Range(all_weights) : PairLess(x, y)
          /\ PairLess(x, accepted[Len(accepted)])

(***************************************************************************)
(* C9: the accepted edges come out in strictly ascending (weight, index)   *)
(* order; each is the first entry of the sorted index that is neither a    *)
(* known pair nor cycle-flagged; none is accepted twice; an entry skipped  *)
(* as a known pair stays a known pair.                                     *)
(***************************************************************************)
Eligible(item) == ~Known(item) /\ ~CycleFlagged(item)

C9_Step ==
    /\ AcceptStep =>
          LET item == accepted'[Len(accepted')]
          IN  /\ accepted' = Append(accepted, item)
              /\ item \in AllEntries
              /\ Eligible(item)
              /\ \A x \in AllEntries : PairLess(x, item) => ~Eligible(x)
              /\ \A i \in 1..Len(accepted) : PairLess(accepted[i], item)
    /\ \A i \in 1..Len(accepted'), j \in 1..Len(accepted') :
          i < j => PairLess(accepted'[i], accepted'[j])
    /\ \A x \in skipped' :
          is_edge_traversed(traversed_edges', EntryEdge(x).source, EntryEdge(x).destination)

C9_AcceptedAscending == [][C9_Step]_vars

\* the input was not in weight order, an entry was skipped as known, and two
\* edges have been accepted
C9_Witness ==
    /\ Len(accepted) >= 2
    /\ accepted[1][2] > accepted[2][2]
    /\ \E x \in skipped : PairLess(x, accepted[Len(accepted)])

(***************************************************************************)
(* C3: on a connected graph, when traverse returns nullptr the accepted    *)
(* count equals nodeCount - 1, and the count never exceeds nodeCount - 1.  *)
(***************************************************************************)
ConnectedInput == ConnectedGraph(num_of_nodes, Range(all_edges))

C3_CompleteMeansAllAccepted ==
    (pc # "load" /\ ConnectedInput) =>
       /\ num_of_traversed_edges <= num_of_nodes - 1
       /\ new_edge = NullPtr => num_of_traversed_edges = num_of_nodes - 1

\* the driver has stopped on nullptr after a tree over the largest node
\* count was accepted
C3_Witness ==
    /\ pc = "done"
    /\ ConnectedInput
    /\ num_of_nodes = MaxNodes
    /\ skipped # {}
    /\ num_of_traversed_edges = num_of_nodes - 1

(***************************************************************************)
(* C1: on a connected graph, when the driver loop ends the collected edges *)
(* connect all nodes, contain no cycle, and their total weight is the      *)
(* minimum over the spanning trees of the graph.                           *)
(***************************************************************************)
RECURSIVE SumOver(_, _)
SumOver(edges, T) ==
    IF T = {} THEN 0
    ELSE LET i == CHOOSE j \in T : TRUE
         IN  edges[i].weight + SumOver(edges, T \ {i})

SpanningTrees(n, edges) ==
    {T \in SUBSET (1..Len(edges)) :
        /\ Cardinality(T) = n - 1
        /\ ConnectedGraph(n, {edges[i] : i \in T})}

MinTreeCost(n, edges) ==
    LET costs == {SumOver(edges, T) : T \in SpanningTrees(n, edges)}
    IN  CHOOSE c \in costs : \A k \in costs : c <= k

C1_DriverYieldsMinimumSpanningTree ==
    (pc = "done" /\ ConnectedInput) =>
       /\ ConnectedGraph(num_of_nodes, Range(mst_edges))
       /\ AcyclicSeq(mst_edges)
       /\ mst_cost = MinTreeCost(num_of_nodes, all_edges)

(***************************************************************************)
(* C2: the accepted edges, read as undirected edges, contain no cycle:     *)
(* traverse never accepts an edge whose endpoints the edges accepted       *)
(* before it already connect.                                              *)
(***************************************************************************)
\* the input has no self-loop and no two edges between the same two nodes
SimpleInput ==
    \A i \in 1..Len(all_edges) :
       /\ all_edges[i].source # all_edges[i].destination
       /\ \A j \in 1..Len(all_edges) :
             {all_edges[j].source, all_edges[j].destination}
                = {all_edges[i].source, all_edges[i].destination} => i = j

\* stated on simple graphs, where a cycle is a cycle however self-loops and
\* parallel edges are read
C2_AcceptedEdgesAcyclic == SimpleInput => AcyclicSeq(AcceptedEdges)

(***************************************************************************)
(* C4: the accumulator's edges are exactly the edges traverse has accepted *)
(* so far, in order, and its cost is the sum of their weights.             *)
(***************************************************************************)
\* between traverse returning an edge and main's add_edge, the last
\* accepted edge is still on its way to the accumulator
Forwarded ==
    IF pc = "main" /\ last = "accept"
    THEN SubSeq(AcceptedEdges, 1, Len(accepted) - 1)
    ELSE AcceptedEdges

C4_AccumulatorIsAccepted ==
    /\ mst_edges = Forwarded
    /\ mst_cost = SumWeights(Forwarded)

(***************************************************************************)
(* C5: when the edges do not connect all nodes, the call that scans the    *)
(* whole remaining weight index reports the complete signal, and nothing   *)
(* more is accepted.                                                       *)
(***************************************************************************)
C5_ExhaustedScanReportsComplete ==
    (pc # "load" /\ ~ConnectedInput) =>
       /\ last = "exhausted" => new_edge = NullPtr
       /\ pc # "undefined"
       /\ mst_edges = Forwarded

(***************************************************************************)
(* C7: a call entered with accepted count = nodeCount - 1 reports complete *)
(* and leaves the weight index, the known pairs, the touched nodes and the *)
(* count unchanged.                                                        *)
(***************************************************************************)
C7_Step ==
    (pc = "traverse" /\ pc' = "main"
       /\ num_of_traversed_edges = num_of_nodes - 1) =>
          /\ new_edge' = NullPtr
          /\ UNCHANGED << all_weights, traversed_edges, traversed_nodes,
                          num_of_traversed_edges >>

C7_CompleteAtEntry == [][C7_Step]_vars

============================================================================
